---- MODULE Spec2Model ----
(***************************************************************************)
(* A model of the Facebook Marketplace PC scraper (index.ts, the program   *)
(* listed in src/README.md lines 100-556, and its earlier variant          *)
(* src/product-scraper.ts).                                                *)
(*                                                                         *)
(* Strings that the program inspects character by character (prices, CSV  *)
(* cells, lines of the input file, URLs) are sequences of one-character    *)
(* strings.  Command-line arguments and file names, which the program only *)
(* compares and concatenates, are TLA+ strings.                            *)
(***************************************************************************)
EXTENDS Integers, Sequences, FiniteSets, TLC

VARIABLES
    argv,          \* process.argv.slice(2)
    apiKey,        \* TRUE iff process.env.OPENAI_API_KEY is set
    pc,            \* where main / scrapeProducts stands
    options,       \* the result of parseArgs
    usagePrinted,  \* printUsage has run
    outputDir,     \* the output directory has been created
    fileContent,   \* what readFileSync returned for the input file
    urls,          \* main's `urls`: the result of readUrlsFromFile
    urlsToScrape,  \* main's `urlsToScrape`
    browser,       \* "none", "open" or "closed"
    browserCloses, \* number of completed browser.close() calls
    i,             \* the loop index of scrapeProducts (1-based)
    contexts,      \* the loop indices whose browsing context is open
    products,      \* scrapeProducts' `products`
    delay,         \* the `delay` of the current iteration, 0 outside its scope
    events,        \* what the run has done so far, in order
    printed,       \* what displayProducts printed
    jsonFile,      \* the JSON output file
    csvFile,       \* the CSV output file
    callIn,        \* the argument of the function applied (function specifications)
    callOut        \* its result

vars == <<argv, apiKey, pc, options, usagePrinted, outputDir, fileContent, urls,
          urlsToScrape, browser, browserCloses, i, contexts, products, delay,
          events, printed, jsonFile, csvFile, callIn, callOut>>

mainVars == <<argv, apiKey, pc, options, usagePrinted, outputDir, fileContent,
              urls, urlsToScrape, browser, browserCloses, i, contexts, products,
              delay, events, printed, jsonFile, csvFile>>

(***************************************************************************)
(* Bounds of the model.                                                    *)
(***************************************************************************)
\* the longest command line
MaxArgs == 2
\* the longest product list given to displayProducts / saveProductsToCSV
MaxProducts == 2
\* the longest JSON array of an input file
MaxItems == 2
\* the largest number of lines of a text input file
MaxLines == 4
\* Math.random() is drawn on a grid of this many points of [0, 1)
RandResolution == 4096

(***************************************************************************)
(* String literals of the program.                                         *)
(***************************************************************************)
ExtractionFailed == <<"E", "x", "t", "r", "a", "c", "t", "i", "o", "n", " ", "F", "a", "i", "l", "e", "d">>

Unknown == <<"U", "n", "k", "n", "o", "w", "n">>

FailedPrefix == <<"F", "a", "i", "l", "e", "d", " ", "t", "o", " ", "e", "x", "t", "r", "a", "c", "t", " ", "i", "n", "f", "o", "r", "m", "a", "t", "i", "o", "n", ":", " ">>

UnknownError == <<"U", "n", "k", "n", "o", "w", "n", " ", "e", "r", "r", "o", "r">>

Http == <<"h", "t", "t", "p">>

ExampleUrl1 == <<"h", "t", "t", "p", "s", ":", "/", "/", "w", "w", "w", ".", "f", "a", "c", "e", "b", "o", "o", "k", ".", "c", "o", "m", "/", "m", "a", "r", "k", "e", "t", "p", "l", "a", "c", "e", "/", "i", "t", "e", "m", "/", "3", "2", "0", "5", "1", "5", "4", "6", "5", "2", "9", "6", "0", "3", "3", "9", "/">>

ExampleUrl2 == <<"h", "t", "t", "p", "s", ":", "/", "/", "w", "w", "w", ".", "f", "a", "c", "e", "b", "o", "o", "k", ".", "c", "o", "m", "/", "m", "a", "r", "k", "e", "t", "p", "l", "a", "c", "e", "/", "i", "t", "e", "m", "/", "6", "6", "4", "7", "9", "2", "4", "1", "2", "7", "7", "3", "2", "0", "7", "/">>

ExampleUrl3 == <<"h", "t", "t", "p", "s", ":", "/", "/", "w", "w", "w", ".", "f", "a", "c", "e", "b", "o", "o", "k", ".", "c", "o", "m", "/", "m", "a", "r", "k", "e", "t", "p", "l", "a", "c", "e", "/", "i", "t", "e", "m", "/", "3", "8", "5", "6", "2", "9", "2", "5", "4", "4", "6", "2", "5", "7", "6", "7", "/">>

\* main's built-in default list
exampleUrls == <<ExampleUrl1, ExampleUrl2, ExampleUrl3>>

\* the value of a missing argument or an unset option (JavaScript's undefined)
Undefined == "<undefined>"

\* JavaScript truthiness of an option value: neither undefined nor ""
Truthy(s) == s # Undefined /\ s # ""

(***************************************************************************)
(* Generic helpers on character sequences.                                 *)
(***************************************************************************)
RECURSIVE Join(_, _)
\* Array.prototype.join
Join(parts, sep) ==
    IF Len(parts) = 0 THEN <<>>
    ELSE IF Len(parts) = 1 THEN parts[1]
    ELSE parts[1] \o sep \o Join(Tail(parts), sep)

\* String.prototype.startsWith
StartsWith(s, prefix) ==
    Len(s) >= Len(prefix) /\ SubSeq(s, 1, Len(prefix)) = prefix

RECURSIVE Split(_, _)
\* String.prototype.split on a one-character separator
Split(s, sep) ==
    IF \A k \in 1..Len(s) : s[k] # sep THEN <<s>>
    ELSE LET k == CHOOSE k \in 1..Len(s) :
                     s[k] = sep /\ \A j \in 1..(k - 1) : s[j] # sep
         IN  <<SubSeq(s, 1, k - 1)>> \o Split(SubSeq(s, k + 1, Len(s)), sep)

\* the white space String.prototype.trim removes
WhiteSpace == {" ", "\t", "\r", "\n"}

\* String.prototype.trim
Trim(s) ==
    IF \A k \in 1..Len(s) : s[k] \in WhiteSpace THEN <<>>
    ELSE LET first == CHOOSE k \in 1..Len(s) :
                         s[k] \notin WhiteSpace /\ \A j \in 1..(k - 1) : s[j] \in WhiteSpace
             last == CHOOSE k \in 1..Len(s) :
                         s[k] \notin WhiteSpace /\ \A j \in (k + 1)..Len(s) : s[j] \in WhiteSpace
         IN  SubSeq(s, first, last)

(***************************************************************************)
(* parseArgs and the input file.                                           *)
(***************************************************************************)
\* args[k], undefined past the end of the array
ArgAt(args, k) == IF k <= Len(args) THEN args[k] ELSE Undefined

RECURSIVE ParseFrom(_, _, _)
\* the loop of parseArgs from index k on; `++i` consumes the option's value
ParseFrom(args, k, opts) ==
    IF k > Len(args) THEN opts
    ELSE IF args[k] = "--input" \/ args[k] = "-i"
         THEN ParseFrom(args, k + 2, [opts EXCEPT !.inputFile = ArgAt(args, k + 1)])
    ELSE IF args[k] = "--output" \/ args[k] = "-o"
         THEN ParseFrom(args, k + 2, [opts EXCEPT !.outputPrefix = ArgAt(args, k + 1)])
    ELSE IF args[k] = "--help" \/ args[k] = "-h"
         THEN ParseFrom(args, k + 1, [opts EXCEPT !.showHelp = TRUE])
    ELSE ParseFrom(args, k + 1, opts)

\* the options object parseArgs starts from
NoOptions == [inputFile |-> Undefined, outputPrefix |-> Undefined, showHelp |-> FALSE]

\* a parseArgs that honours the help flag as the first argument only
parseArgsHelpFirstOnly(args) ==
    [ParseFrom(args, 1, NoOptions) EXCEPT
        !.showHelp = Len(args) > 0 /\ args[1] \in {"--help", "-h"}]

parseArgs(args) == ParseFrom(args, 1, NoOptions)

\* An input file, as readUrlsFromFile sees it:
\*   kind "missing": readFileSync throws;
\*   kind "text":    JSON.parse throws on the content `raw`;
\*   kind "json":    JSON.parse returns a value of shape t, where t is
\*       "array"     an array, with the elements `items`,
\*       "urlsArray" an object whose `urls` property is the array `items`,
\*       "object"    an object whose `urls` property is missing or no array,
\*       "scalar"    a number, a string or a boolean,
\*       "null"      null (the content `raw` is the text null).
MissingFile == [kind |-> "missing", raw |-> <<>>, t |-> "none", items |-> <<>>]

TextFile(raw) == [kind |-> "text", raw |-> raw, t |-> "none", items |-> <<>>]

JsonArrayFile(items) == [kind |-> "json", raw |-> <<>>, t |-> "array", items |-> items]

JsonUrlsFile(items) == [kind |-> "json", raw |-> <<>>, t |-> "urlsArray", items |-> items]

JsonObjectFile == [kind |-> "json", raw |-> <<>>, t |-> "object", items |-> <<>>]

JsonScalarFile == [kind |-> "json", raw |-> <<>>, t |-> "scalar", items |-> <<>>]

JsonNullFile == [kind |-> "json", raw |-> <<"n", "u", "l", "l">>, t |-> "null", items |-> <<>>]

\* line.length > 0 && line.startsWith("http")
KeepLine(line) == Len(line) > 0 /\ StartsWith(line, Http)

\* a text branch that forgets to trim the lines
TextLinesUntrimmed(raw) == SelectSeq(Split(raw, "\n"), KeepLine)

\* the text branch: split("\n").map(trim).filter(...)
TextLines(raw) ==
    LET lines == Split(raw, "\n")
    IN  SelectSeq([k \in 1..Len(lines) |-> Trim(lines[k])], KeepLine)

\* readUrlsFromFile: the list it returns for the file f
readUrlsFromFile(f) ==
    IF f.kind = "missing" THEN <<>>                \* outer catch
    ELSE IF f.kind = "text" THEN TextLines(f.raw)  \* inner catch
    ELSE IF f.t = "array" THEN f.items
    ELSE IF f.t = "null" THEN TextLines(f.raw)     \* null.urls throws inside the inner try
    ELSE IF f.t = "urlsArray" THEN f.items
    ELSE <<>>                                      \* "Could not parse input file format"

(***************************************************************************)
(* Product records and extractProductInfo.                                 *)
(***************************************************************************)
\* the fields of a Product, in the order of the CSV columns
Fields == <<"title", "price", "brand", "model", "cpu", "ram", "storage",
            "availability", "quantity", "location", "description", "imageUrl",
            "originalUrl">>

\* the placeholder extractProductInfo returns for the message msg
Placeholder(msg, originalUrl) ==
    [title |-> ExtractionFailed, price |-> Unknown, brand |-> Unknown,
     model |-> Unknown, cpu |-> Unknown, ram |-> Unknown, storage |-> Unknown,
     availability |-> Unknown, quantity |-> Unknown, location |-> Unknown,
     description |-> FailedPrefix \o msg, imageUrl |-> <<>>,
     originalUrl |-> originalUrl]

\* a message extraction that knows Error instances only
ErrorMessageOfErrorsOnly(error) ==
    IF error.kind = "Error" THEN error.message ELSE UnknownError

\* What scraper.run throws:
\*   kind "Error":  an Error whose message is `message`;
\*   kind "string": the string `message`;
\*   kind "object": a non-Error object with a `message` property;
\*   kind "other":  anything else (null, a number, an object without message).
\* the "Safely extract error message" cascade
ErrorMessage(error) ==
    IF error.kind = "Error" THEN error.message
    ELSE IF error.kind = "string" THEN error.message
    ELSE IF error.kind = "object" THEN error.message
    ELSE UnknownError

NoError == [kind |-> "none", message |-> <<>>]

\* the outcomes of scraper.run: data.product, or a thrown value
RunOk(product) == [ok |-> TRUE, product |-> product, error |-> NoError]

RunThrows(error) == [ok |-> FALSE, product |-> Placeholder(<<>>, <<>>), error |-> error]

\* an extraction that returns the extractor's record as it is
extractProductInfoUnstamped(run, originalUrl) ==
    IF run.ok THEN run.product
    ELSE Placeholder(ErrorMessage(run.error), originalUrl)

\* extractProductInfo, given the outcome of scraper.run
extractProductInfo(run, originalUrl) ==
    IF run.ok THEN [run.product EXCEPT !.originalUrl = originalUrl]
    ELSE Placeholder(ErrorMessage(run.error), originalUrl)

(***************************************************************************)
(* displayProducts: the summary and the price statistics.                  *)
(* A parsed price is an exact decimal fraction [num, den], den a power of  *)
(* ten; NaN is the value parseFloat gives when no number can be read.      *)
(***************************************************************************)
Digits == {"0", "1", "2", "3", "4", "5", "6", "7", "8", "9"}

DigitValue(c) ==
    CASE c = "0" -> 0 [] c = "1" -> 1 [] c = "2" -> 2 [] c = "3" -> 3
      [] c = "4" -> 4 [] c = "5" -> 5 [] c = "6" -> 6 [] c = "7" -> 7
      [] c = "8" -> 8 [] c = "9" -> 9

NaN == [num |-> -1, den |-> 1]

\* the character class [0-9.] of the regular expression
IsNumericChar(c) == c \in Digits \/ c = "."

\* price.replace(/[^0-9.]/g, '')
StripNonNumeric(s) == SelectSeq(s, IsNumericChar)

\* the number of digits s starts with, from position k on
LeadingDigits(s, k) ==
    IF \A j \in k..Len(s) : s[j] \in Digits THEN Len(s) - k + 1
    ELSE (CHOOSE j \in k..Len(s) :
              s[j] \notin Digits /\ \A m \in k..(j - 1) : s[m] \in Digits) - k

RECURSIVE DigitsToNat(_)
DigitsToNat(s) ==
    IF Len(s) = 0 THEN 0
    ELSE 10 * DigitsToNat(SubSeq(s, 1, Len(s) - 1)) + DigitValue(s[Len(s)])

RECURSIVE Pow10(_)
Pow10(n) == IF n = 0 THEN 1 ELSE 10 * Pow10(n - 1)

\* parseFloat on a string of digits and points: the longest prefix that is a
\* decimal literal (digits, then optionally a point and digits), NaN if none
parseFloat(s) ==
    LET a == LeadingDigits(s, 1)
        hasPoint == a < Len(s) /\ s[a + 1] = "."
        b == IF hasPoint THEN LeadingDigits(s, a + 2) ELSE 0
    IN  IF a + b = 0 THEN NaN
        ELSE [num |-> DigitsToNat(SubSeq(s, 1, a) \o SubSeq(s, a + 2, a + 1 + b)),
              den |-> Pow10(b)]

\* p.price !== "Unknown" ? parseFloat(p.price.replace(/[^0-9.]/g, '')) : NaN
PriceOf(p) == IF p.price # Unknown THEN parseFloat(StripNonNumeric(p.price)) ELSE NaN

IsNumber(price) == price # NaN

\* the `prices` array of displayProducts
StatPrices(ps) == SelectSeq([k \in 1..Len(ps) |-> PriceOf(ps[k])], IsNumber)

Less(x, y) == x.num * y.den < y.num * x.den

\* Math.min(...prices) and Math.max(...prices), prices not empty
MinOf(prices) ==
    prices[CHOOSE k \in 1..Len(prices) : \A j \in 1..Len(prices) : ~Less(prices[j], prices[k])]

MaxOf(prices) ==
    prices[CHOOSE k \in 1..Len(prices) : \A j \in 1..Len(prices) : ~Less(prices[k], prices[j])]

RECURSIVE SumOver(_, _)
\* the sum of the prices as a numerator over the denominator den
SumOver(prices, den) ==
    IF Len(prices) = 0 THEN 0
    ELSE prices[1].num * (den \div prices[1].den) + SumOver(Tail(prices), den)

\* prices.reduce((sum, price) => sum + price, 0) / prices.length
AvgOf(prices) ==
    LET den == MaxOf([k \in 1..Len(prices) |-> [num |-> prices[k].den, den |-> 1]]).num
    IN  [num |-> SumOver(prices, den), den |-> den * Len(prices)]

\* x.toFixed(2), as a number of hundredths (round half up)
ToFixed2(x) == (x.num * 200 + x.den) \div (2 * x.den)

IsSuccessful(p) == p.title # ExtractionFailed

\* what displayProducts prints: the two counts, whether the statistics lines
\* are printed and their three numbers, and the number of sample listings
NoStats == [shown |-> FALSE, min |-> 0, max |-> 0, avg |-> 0]

StatsOf(prices) ==
    IF Len(prices) > 0
    THEN [shown |-> TRUE, min |-> ToFixed2(MinOf(prices)),
          max |-> ToFixed2(MaxOf(prices)), avg |-> ToFixed2(AvgOf(prices))]
    ELSE NoStats

displayProducts(ps) ==
    LET successful == Len(SelectSeq(ps, IsSuccessful))
    IN  [total |-> Len(ps),
         successful |-> successful,
         stats |-> IF successful > 0 THEN StatsOf(StatPrices(ps)) ELSE NoStats,
         samples |-> IF Len(ps) < 3 THEN Len(ps) ELSE 3]

(***************************************************************************)
(* saveProductsToCSV.                                                      *)
(***************************************************************************)
headers ==
    << <<"T", "i", "t", "l", "e">>,
       <<"P", "r", "i", "c", "e">>,
       <<"B", "r", "a", "n", "d">>,
       <<"M", "o", "d", "e", "l">>,
       <<"C", "P", "U">>,
       <<"R", "A", "M">>,
       <<"S", "t", "o", "r", "a", "g", "e">>,
       <<"A", "v", "a", "i", "l", "a", "b", "i", "l", "i", "t", "y">>,
       <<"Q", "u", "a", "n", "t", "i", "t", "y">>,
       <<"L", "o", "c", "a", "t", "i", "o", "n">>,
       <<"D", "e", "s", "c", "r", "i", "p", "t", "i", "o", "n">>,
       <<"I", "m", "a", "g", "e", " ", "U", "R", "L">>,
       <<"O", "r", "i", "g", "i", "n", "a", "l", " ", "U", "R", "L">> >>

\* the row of a product: its thirteen fields, in the order of the headers
RowOf(product) == [k \in 1..Len(Fields) |-> product[Fields[k]]]

RECURSIVE DoubleQuotes(_)
\* cell.replace(/"/g, '""')
DoubleQuotes(cell) ==
    IF Len(cell) = 0 THEN <<>>
    ELSE (IF cell[1] = "\"" THEN <<"\"", "\"">> ELSE <<cell[1]>>)
         \o DoubleQuotes(Tail(cell))

\* an escape that wraps the cell in quotes but leaves its quotes single
EscapeCellUndoubled(cell) ==
    IF Len(cell) > 0 THEN <<"\"">> \o cell \o <<"\"">> ELSE <<>>

\* cell ? `"${cell.replace(/"/g, '""')}"` : ""
EscapeCell(cell) ==
    IF Len(cell) > 0 THEN <<"\"">> \o DoubleQuotes(cell) \o <<"\"">> ELSE <<>>

\* row.map(...).join(",")
CsvLine(row) == Join([k \in 1..Len(row) |-> EscapeCell(row[k])], <<",">>)

\* csvContent
saveProductsToCSV(ps) ==
    Join(<<Join(headers, <<",">>)>> \o [k \in 1..Len(ps) |-> CsvLine(RowOf(ps[k]))],
         <<"\n">>)

(***************************************************************************)
(* The inputs of a run.                                                    *)
(***************************************************************************)
\* the words a command line is made of
ArgTokens == {"--help", "-h", "--input", "-i", "--output", "-o", "urls.txt"}

ArgLists == UNION {[1..n -> ArgTokens] : n \in 0..MaxArgs}

UrlA == <<"h", "t", "t", "p", ":", "/", "/", "a">>

UrlB == <<"h", "t", "t", "p", ":", "/", "/", "b">>

\* a listing page's own address, as the extractor may report it
UrlSeen == <<"h", "t", "t", "p", ":", "/", "/", "f", "b", ".", "c", "o", "m", "/", "1">>

\* a text file: a blank line, a comment line and two padded URL lines
SampleText ==
    <<"\n", "#", " ", "p", "c", "s", "\n", " ">> \o UrlA \o <<"\r", "\n">> \o UrlB \o <<" ", "\n">>

\* the input files a run may find
InputFiles ==
    {MissingFile, TextFile(SampleText), TextFile(<<"#">>), JsonArrayFile(<<UrlA, UrlB>>),
     JsonArrayFile(<<>>), JsonUrlsFile(<<UrlB>>), JsonObjectFile, JsonScalarFile,
     JsonNullFile}

\* a record as the extractor returns it
Listing(title, price, other, description, imageUrl, originalUrl) ==
    [title |-> title, price |-> price, brand |-> other, model |-> other,
     cpu |-> other, ram |-> other, storage |-> other, availability |-> other,
     quantity |-> other, location |-> other, description |-> description,
     imageUrl |-> imageUrl, originalUrl |-> originalUrl]

GoodPc ==
    Listing(<<"P", "C">>, <<"$", "1", "0", "0">>, <<"x">>, <<"o", "k">>,
            <<"h", "t", "t", "p", ":", "/", "/", "i">>, UrlSeen)

\* what scraper.run may return or throw during a run
RunOutcomes ==
    {RunOk(GoodPc), RunThrows([kind |-> "Error", message |-> <<"b", "a", "d">>])}

\* Math.random(), as a numerator over RandResolution: the ends and the middle
RandomDraws == {0, RandResolution \div 2, RandResolution - 1}

\* Math.floor(Math.random() * 2000) + 1000
DelayOf(r) == ((r * 2000) \div RandResolution) + 1000

(***************************************************************************)
(* main and scrapeProducts.                                                *)
(***************************************************************************)
Event(op, k) == [op |-> op, at |-> k]

Init ==
    /\ argv \in ArgLists
    /\ apiKey \in BOOLEAN
    /\ pc = "main"
    /\ options = NoOptions
    /\ usagePrinted = FALSE
    /\ outputDir = FALSE
    /\ fileContent = <<>>
    /\ urls = <<>>
    /\ urlsToScrape = <<>>
    /\ browser = "none"
    /\ browserCloses = 0
    /\ i = 0
    /\ contexts = {}
    /\ products = <<>>
    /\ delay = 0
    /\ events = <<>>
    /\ printed = <<>>
    /\ jsonFile = <<>>
    /\ csvFile = <<>>
    /\ callIn = <<>>
    /\ callOut = <<>>

\* main, up to `if (options.showHelp) { printUsage(); return; }`
MainParse ==
    /\ pc = "main"
    /\ options' = parseArgs(argv)
    /\ usagePrinted' = options'.showHelp
    /\ pc' = IF options'.showHelp THEN "done" ELSE "ensureDir"
    /\ UNCHANGED <<argv, apiKey, outputDir, fileContent, urls, urlsToScrape, browser,
                   browserCloses, i, contexts, products, delay, events, printed,
                   jsonFile, csvFile, callIn, callOut>>

\* ensureOutputDirectoryExists; mkdirSync may throw, which ends main
MainEnsureDir ==
    /\ pc = "ensureDir"
    /\ \E ok \in BOOLEAN :
          /\ outputDir' = ok
          /\ pc' = IF ok THEN "resolve" ELSE "done"
    /\ UNCHANGED <<argv, apiKey, options, usagePrinted, fileContent, urls, urlsToScrape,
                   browser, browserCloses, i, contexts, products, delay, events,
                   printed, jsonFile, csvFile, callIn, callOut>>

\* a choice that takes the file's list even when it is empty
ChooseUrlsUnchecked(fromFile) == fromFile

\* urlsToScrape, given the list read from the input file
ChooseUrls(fromFile) == IF Len(fromFile) > 0 THEN fromFile ELSE exampleUrls

\* main: "Determine which URLs to scrape"
MainResolve ==
    /\ pc = "resolve"
    /\ IF Truthy(options.inputFile)
       THEN \E f \in InputFiles :
               /\ fileContent' = <<f>>
               /\ urls' = readUrlsFromFile(f)
               /\ urlsToScrape' = ChooseUrls(urls')
       ELSE /\ urlsToScrape' = exampleUrls
            /\ UNCHANGED <<fileContent, urls>>
    /\ pc' = "scrape"
    /\ UNCHANGED <<argv, apiKey, options, usagePrinted, outputDir, browser,
                   browserCloses, i, contexts, products, delay, events, printed,
                   jsonFile, csvFile, callIn, callOut>>

\* a scrapeProducts that launches the browser without looking at the key
ScrapeStartUnchecked ==
    /\ pc = "scrape"
    /\ pc' = "launch"
    /\ UNCHANGED <<argv, apiKey, options, usagePrinted, outputDir, fileContent, urls,
                   urlsToScrape, browser, browserCloses, i, contexts, products, delay,
                   events, printed, jsonFile, csvFile, callIn, callOut>>

\* scrapeProducts, up to the call of chromium.launch; without the key it
\* throws, and main's catch logs the error
ScrapeStart ==
    /\ pc = "scrape"
    /\ pc' = IF apiKey THEN "launch" ELSE "done"
    /\ UNCHANGED <<argv, apiKey, options, usagePrinted, outputDir, fileContent, urls,
                   urlsToScrape, browser, browserCloses, i, contexts, products, delay,
                   events, printed, jsonFile, csvFile, callIn, callOut>>

\* await chromium.launch(...), then `products = []` and the loop's `i = 0`
Launch ==
    /\ pc = "launch"
    /\ \E ok \in BOOLEAN :
          IF ok
          THEN /\ browser' = "open"
               /\ events' = Append(events, Event("launch", 0))
               /\ i' = 1
               /\ pc' = "loop"
          ELSE /\ pc' = "done"
               /\ UNCHANGED <<browser, events, i>>
    /\ products' = <<>>
    /\ UNCHANGED <<argv, apiKey, options, usagePrinted, outputDir, fileContent, urls,
                   urlsToScrape, browserCloses, contexts, delay, printed, jsonFile,
                   csvFile, callIn, callOut>>

\* a loop test that stops one URL short: `i < urls.length - 1`
LoopTestOneShort ==
    /\ pc = "loop"
    /\ IF i < Len(urlsToScrape)
       THEN /\ events' = Append(events, Event("process", i))
            /\ pc' = "newContext"
       ELSE /\ pc' = "finally"
            /\ UNCHANGED events
    /\ UNCHANGED <<argv, apiKey, options, usagePrinted, outputDir, fileContent, urls,
                   urlsToScrape, browser, browserCloses, i, contexts, products, delay,
                   printed, jsonFile, csvFile, callIn, callOut>>

\* the loop test `i < urls.length`, and the "Processing URL" line of an iteration
LoopTest ==
    /\ pc = "loop"
    /\ IF i <= Len(urlsToScrape)
       THEN /\ events' = Append(events, Event("process", i))
            /\ pc' = "newContext"
       ELSE /\ pc' = "finally"
            /\ UNCHANGED events
    /\ UNCHANGED <<argv, apiKey, options, usagePrinted, outputDir, fileContent, urls,
                   urlsToScrape, browser, browserCloses, i, contexts, products, delay,
                   printed, jsonFile, csvFile, callIn, callOut>>

\* a catch that gives up the run instead of going on with the next URL
CatchAbort(log) ==
    /\ events' = Append(log, Event("error", i))
    /\ i' = i
    /\ delay' = 0
    /\ pc' = "finally"

\* the inner catch: log the error; then the loop's `i++`
Catch(log) ==
    /\ events' = Append(log, Event("error", i))
    /\ i' = i + 1
    /\ delay' = 0
    /\ pc' = "loop"

\* await browser.newContext(...)
NewContext ==
    /\ pc = "newContext"
    /\ \E ok \in BOOLEAN :
          IF ok
          THEN /\ contexts' = contexts \cup {i}
               /\ events' = Append(events, Event("newContext", i))
               /\ pc' = "newPage"
               /\ UNCHANGED <<i, delay>>
          ELSE /\ Catch(events)
               /\ UNCHANGED contexts
    /\ UNCHANGED <<argv, apiKey, options, usagePrinted, outputDir, fileContent, urls,
                   urlsToScrape, browser, browserCloses, products, printed, jsonFile,
                   csvFile, callIn, callOut>>

\* await context.newPage()
NewPage ==
    /\ pc = "newPage"
    /\ \E ok \in BOOLEAN :
          IF ok
          THEN /\ pc' = "goto"
               /\ UNCHANGED <<i, delay, events>>
          ELSE Catch(events)
    /\ UNCHANGED <<argv, apiKey, options, usagePrinted, outputDir, fileContent, urls,
                   urlsToScrape, browser, browserCloses, contexts, products, printed,
                   jsonFile, csvFile, callIn, callOut>>

\* await page.goto(url, { timeout: 30000 })
Goto ==
    /\ pc = "goto"
    /\ \E ok \in BOOLEAN :
          IF ok
          THEN /\ events' = Append(events, Event("goto", i))
               /\ pc' = "extract"
               /\ UNCHANGED <<i, delay>>
          ELSE Catch(Append(events, Event("goto", i)))
    /\ UNCHANGED <<argv, apiKey, options, usagePrinted, outputDir, fileContent, urls,
                   urlsToScrape, browser, browserCloses, contexts, products, printed,
                   jsonFile, csvFile, callIn, callOut>>

\* const product = await extractProductInfo(page, scraper, url); products.push(product)
Extract ==
    /\ pc = "extract"
    /\ \E run \in RunOutcomes :
          products' = Append(products, extractProductInfo(run, urlsToScrape[i]))
    /\ events' = Append(events, Event("extract", i))
    /\ pc' = "close"
    /\ UNCHANGED <<argv, apiKey, options, usagePrinted, outputDir, fileContent, urls,
                   urlsToScrape, browser, browserCloses, i, contexts, delay, printed,
                   jsonFile, csvFile, callIn, callOut>>

\* the test `i < urls.length`, which also delays after the last URL
DelayDueAlways(k, n) == k <= n

\* `if (i < urls.length - 1)`, for the 1-based index k
DelayDue(k, n) == k < n

\* await context.close(), then the delay's setTimeout if one is due
CloseContext ==
    /\ pc = "close"
    /\ \E ok \in BOOLEAN :
          IF ok
          THEN /\ contexts' = contexts \ {i}
               /\ IF DelayDue(i, Len(urlsToScrape))
                  THEN \E r \in RandomDraws :
                          /\ delay' = DelayOf(r)
                          /\ events' = Append(Append(events, Event("closeContext", i)),
                                              Event("delay", i))
                          /\ pc' = "delay"
                          /\ UNCHANGED i
                  ELSE /\ events' = Append(events, Event("closeContext", i))
                       /\ i' = i + 1
                       /\ pc' = "loop"
                       /\ UNCHANGED delay
          ELSE /\ Catch(events)
               /\ UNCHANGED contexts
    /\ UNCHANGED <<argv, apiKey, options, usagePrinted, outputDir, fileContent, urls,
                   urlsToScrape, browser, browserCloses, products, printed, jsonFile,
                   csvFile, callIn, callOut>>

\* the delay's timer fires; the iteration ends
DelayDone ==
    /\ pc = "delay"
    /\ delay' = 0
    /\ i' = i + 1
    /\ pc' = "loop"
    /\ UNCHANGED <<argv, apiKey, options, usagePrinted, outputDir, fileContent, urls,
                   urlsToScrape, browser, browserCloses, contexts, products, events,
                   printed, jsonFile, csvFile, callIn, callOut>>

\* finally { await browser.close(); }  The call is made once; a close that
\* fails rejects scrapeProducts, and main's catch logs the error.
CloseBrowser ==
    /\ pc = "finally"
    /\ events' = Append(events, Event("closeBrowser", 0))
    /\ \E ok \in BOOLEAN :
          IF ok
          THEN /\ browser' = "closed"
               /\ browserCloses' = browserCloses + 1
               /\ pc' = "report"
          ELSE /\ pc' = "done"
               /\ UNCHANGED <<browser, browserCloses>>
    /\ UNCHANGED <<argv, apiKey, options, usagePrinted, outputDir, fileContent, urls,
                   urlsToScrape, i, contexts, products, delay, printed, jsonFile,
                   csvFile, callIn, callOut>>

\* options.outputPrefix || "pc_listings"
OutputPrefix(opts) == IF Truthy(opts.outputPrefix) THEN opts.outputPrefix ELSE "pc_listings"

\* main after scrapeProducts returned: displayProducts, saveProductsToFile,
\* saveProductsToCSV; a writeFileSync that throws skips what follows it
MainReport ==
    /\ pc = "report"
    /\ printed' = <<displayProducts(products)>>
    /\ \E failing \in {"none", "json", "csv"} :
          /\ jsonFile' = IF failing = "json" THEN <<>>
                         ELSE <<[name |-> OutputPrefix(options) \o ".json",
                                 data |-> products]>>
          /\ csvFile' = IF failing = "none"
                        THEN <<[name |-> OutputPrefix(options) \o ".csv",
                                data |-> saveProductsToCSV(products)]>>
                        ELSE <<>>
    /\ pc' = "done"
    /\ UNCHANGED <<argv, apiKey, options, usagePrinted, outputDir, fileContent, urls,
                   urlsToScrape, browser, browserCloses, i, contexts, products, delay,
                   events, callIn, callOut>>

Next ==
    \/ MainParse
    \/ MainEnsureDir
    \/ MainResolve
    \/ ScrapeStart
    \/ Launch
    \/ LoopTest
    \/ NewContext
    \/ NewPage
    \/ Goto
    \/ Extract
    \/ CloseContext
    \/ DelayDone
    \/ CloseBrowser
    \/ MainReport

Spec == Init /\ [][Next]_vars

(***************************************************************************)
(* The functions on their own: each specification draws an argument and    *)
(* applies one function to it.  The variables of main keep their initial   *)
(* values.                                                                 *)
(***************************************************************************)
MainIdle ==
    /\ argv = <<>>
    /\ apiKey = TRUE
    /\ pc = "call"
    /\ options = NoOptions
    /\ usagePrinted = FALSE
    /\ outputDir = FALSE
    /\ fileContent = <<>>
    /\ urls = <<>>
    /\ urlsToScrape = <<>>
    /\ browser = "none"
    /\ browserCloses = 0
    /\ i = 0
    /\ contexts = {}
    /\ products = <<>>
    /\ delay = 0
    /\ events = <<>>
    /\ printed = <<>>
    /\ jsonFile = <<>>
    /\ csvFile = <<>>

\* all sequences over S of length at most n
SeqsUpTo(S, n) == UNION {[1..m -> S] : m \in 0..n}

(*------------------------- readUrlsFromFile ------------------------------*)
\* A line of a text file: the text `core`, which neither begins nor ends
\* with white space, between the paddings `pre` and `post`.
Line(pre, core, post) == [pre |-> pre, core |-> core, post |-> post]

LineSamples ==
    {Line(<<>>, <<>>, <<>>),
     Line(<<" ">>, <<>>, <<"\t">>),
     Line(<<>>, <<"#", " ", "p", "c", "s">>, <<>>),
     Line(<<>>, UrlA, <<>>),
     Line(<<" ", "\t">>, UrlB, <<"\r">>),
     Line(<<>>, <<"h", "t", "t", "p", "s", ":", "/", "/", "c", " ", "d">>, <<" ">>),
     Line(<<>>, <<"f", "t", "p", ":", "/", "/", "a">>, <<>>),
     Line(<<" ">>, <<"x", "h", "t", "t", "p">>, <<>>),
     Line(<<>>, <<"h", "t", "t">>, <<>>)}

LineText(l) == l.pre \o l.core \o l.post

\* the content of the text file made of the lines ls
TextOf(ls) == Join([k \in 1..Len(ls) |-> LineText(ls[k])], <<"\n">>)

\* the elements a JSON array of the input file may hold
JsonItems == {UrlA, UrlB, <<" ">> \o UrlA \o <<" ">>, <<"f", "t", "p", ":", "/", "/", "a">>, <<>>}

\* the arguments of readUrlsFromFile: the file, and for a text file its lines
ReadInputs ==
    {[file |-> f, lines |-> <<>>] :
        f \in {MissingFile, JsonObjectFile, JsonScalarFile, JsonNullFile}}
    \cup {[file |-> JsonArrayFile(items), lines |-> <<>>] : items \in SeqsUpTo(JsonItems, MaxItems)}
    \cup {[file |-> JsonUrlsFile(items), lines |-> <<>>] : items \in SeqsUpTo(JsonItems, MaxItems)}
    \cup {[file |-> TextFile(TextOf(ls)), lines |-> ls] : ls \in SeqsUpTo(LineSamples, MaxLines)}

InitRead == MainIdle /\ callIn \in ReadInputs /\ callOut = <<>>

CallRead ==
    /\ callOut = <<>>
    /\ callOut' = <<readUrlsFromFile(callIn.file)>>
    /\ UNCHANGED <<mainVars, callIn>>

SpecRead == InitRead /\ [][CallRead]_vars

(*------------------------- extractProductInfo ----------------------------*)
MessageSamples ==
    {<<>>, <<"b", "a", "d">>, <<"t", "i", "m", "e", "d", " ", "o", "u", "t">>,
     <<"n", "o", " ", "\"", "x", "\"">>, UnknownError}

ThrownErrors ==
    {[kind |-> k, message |-> m] : k \in {"Error", "string", "object"}, m \in MessageSamples}
    \cup {[kind |-> "other", message |-> <<>>]}

ExtractInputs ==
    {[run |-> r, url |-> u] :
        r \in {RunOk(GoodPc), RunOk([GoodPc EXCEPT !.title = ExtractionFailed])}
              \cup {RunThrows(e) : e \in ThrownErrors},
        u \in {UrlA, UrlB, UrlSeen, ExampleUrl1}}

InitExtract == MainIdle /\ callIn \in ExtractInputs /\ callOut = <<>>

CallExtract ==
    /\ callOut = <<>>
    /\ callOut' = <<extractProductInfo(callIn.run, callIn.url)>>
    /\ UNCHANGED <<mainVars, callIn>>

SpecExtract == InitExtract /\ [][CallExtract]_vars

(*------------------------- displayProducts -------------------------------*)
PriceSamples ==
    {<<"$", "1", "0", "0">>, <<"$", "3", "0", "0">>, Unknown, <<>>,
     <<"$", "5">>, <<"1", ".", "5">>, <<"1", ".", "2", ".", "3">>,
     <<"F", "r", "e", "e">>, <<".">>, <<"$", ".", "5", " ", "o", "b", "o">>}

StatsProducts ==
    {[GoodPc EXCEPT !.title = t, !.price = p] :
        t \in {<<"P", "C">>, ExtractionFailed}, p \in PriceSamples}

InitStats == MainIdle /\ callIn \in SeqsUpTo(StatsProducts, MaxProducts) /\ callOut = <<>>

CallDisplay ==
    /\ callOut = <<>>
    /\ callOut' = <<displayProducts(callIn)>>
    /\ UNCHANGED <<mainVars, callIn>>

SpecStats == InitStats /\ [][CallDisplay]_vars

(*------------------------- saveProductsToCSV -----------------------------*)
SaidHi == <<"H", "e", " ", "s", "a", "i", "d", " ", "\"", "h", "i", "\"", ",", " ", "o", "k">>

CsvProducts ==
    {GoodPc,
     Placeholder(<<"b", "a", "d">>, UrlA),
     Listing(SaidHi, <<>>, <<>>, <<"a", "\n", "b">>, <<>>, UrlB),
     Listing(<<"\"">>, <<"1", ",", "5">>, <<",">>, <<"\"", "\"">>, <<>>, UrlA),
     Listing(<<>>, <<>>, <<>>, <<>>, <<>>, <<>>),
     Listing(<<"P", "C">>, <<"$", "5">>, SaidHi, SaidHi, UrlB, UrlB),
     Listing(<<"a", ",", "b">>, <<"\n">>, <<" ">>, <<"\"", ",", "\"">>, <<>>, UrlSeen)}

InitCsv == MainIdle /\ callIn \in SeqsUpTo(CsvProducts, MaxProducts) /\ callOut = <<>>

CallCsv ==
    /\ callOut = <<>>
    /\ callOut' = <<saveProductsToCSV(callIn)>>
    /\ UNCHANGED <<mainVars, callIn>>

SpecCsv == InitCsv /\ [][CallCsv]_vars

(***************************************************************************)
(* The claims.                                                             *)
(***************************************************************************)
\* the loop indices of the events of kind op, in the order they happened
AtOf(op) ==
    LET sel == SelectSeq(events, LAMBDA e : e.op = op)
    IN  [k \in 1..Len(sel) |-> sel[k].at]

Increasing(s) == \A k \in 1..(Len(s) - 1) : s[k] < s[k + 1]

\* s occurs in t as a run of consecutive elements
Contains(t, s) == \E k \in 0..(Len(t) - Len(s)) : SubSeq(t, k + 1, k + Len(s)) = s

\* scrapeProducts has returned its list to main
Returned == pc = "report"

\* C1: the list scrapeProducts returns has one record per input URL, the
\* record at position k made for the URL at position k, whatever failed.
C1_OneRecordPerUrl ==
    Returned =>
        /\ Len(products) = Len(urlsToScrape)
        /\ \A k \in 1..Len(products) : products[k].originalUrl = urlsToScrape[k]

\* C2: once the browser is launched, every URL is attempted exactly once and
\* in input order: the iterations started so far are 1, 2, ..., with none
\* missing when the loop is over, whatever failed on the way; and no URL is
\* navigated or extracted twice.
C2_OneAttemptPerUrlInOrder ==
    LET attempts == AtOf("process")
    IN  /\ attempts = [k \in 1..Len(attempts) |-> k]
        /\ Len(attempts) <= Len(urlsToScrape)
        /\ (browser # "none" /\ pc \in {"finally", "report", "done"})
              => Len(attempts) = Len(urlsToScrape)
        /\ Increasing(AtOf("goto"))
        /\ Increasing(AtOf("extract"))

\* a run in which URL 1 failed to load and URL 3 was still extracted
C2_Witness ==
    /\ Returned
    /\ Len(urlsToScrape) = 3
    /\ \E k \in 1..Len(events) : events[k] = Event("error", 1)
    /\ \E k \in 1..Len(events) : events[k] = Event("extract", 3)

\* C3: without OPENAI_API_KEY no browser is launched, no context is created,
\* no URL is navigated or extracted, and neither output file is written.
C3_NoKeyNoBrowserNoFiles ==
    ~apiKey =>
        /\ browser = "none"
        /\ browserCloses = 0
        /\ contexts = {}
        /\ events = <<>>
        /\ jsonFile = <<>>
        /\ csvFile = <<>>

\* main has ended in scrapeProducts' missing-key error
C3_Witness ==
    /\ ~apiKey
    /\ pc = "done"
    /\ outputDir
    /\ urlsToScrape # <<>>

\* the fields of a placeholder that hold the sentinel "Unknown"
SentinelFields ==
    {"price", "brand", "model", "cpu", "ram", "storage", "availability",
     "quantity", "location"}

\* C4: when scraper.run throws, extractProductInfo returns a record titled
\* "Extraction Failed" whose description contains the thrown value's message
\* text (the string itself when a string is thrown), whose imageUrl is empty,
\* whose originalUrl is the input URL and whose other fields are "Unknown".
C4_FailurePlaceholder ==
    (callOut # <<>> /\ ~callIn.run.ok) =>
        LET p == callOut[1]
            error == callIn.run.error
        IN  /\ p.title = ExtractionFailed
            /\ error.kind \in {"Error", "string", "object"}
                  => Contains(p.description, error.message)
            /\ p.imageUrl = <<>>
            /\ p.originalUrl = callIn.url
            /\ \A f \in SentinelFields : p[f] = Unknown

\* a thrown non-Error object with a message has been turned into a placeholder
C4_Witness ==
    /\ callOut # <<>>
    /\ ~callIn.run.ok
    /\ callIn.run.error = [kind |-> "object",
                           message |-> <<"t", "i", "m", "e", "d", " ", "o", "u", "t">>]
    /\ callOut[1].title = ExtractionFailed

\* the text of a line begins with http, spelled out
IsHttpText(core) ==
    /\ Len(core) >= 4
    /\ core[1] = "h" /\ core[2] = "t" /\ core[3] = "t" /\ core[4] = "p"

\* the texts of the lines ls that are not empty and begin with http
HttpTexts(ls) == SelectSeq([k \in 1..Len(ls) |-> ls[k].core], IsHttpText)

\* C5: readUrlsFromFile returns a JSON array itself, the `urls` array of a
\* JSON object, and for content that is not JSON the trimmed lines that are
\* not empty and begin with http, in their order.
C5_ReadUrls ==
    callOut # <<>> =>
        LET f == callIn.file
        IN  /\ (f.kind = "json" /\ f.t = "array") => callOut[1] = f.items
            /\ (f.kind = "json" /\ f.t = "urlsArray") => callOut[1] = f.items
            /\ f.kind = "text" => callOut[1] = HttpTexts(callIn.lines)

\* a text file of a blank line, a comment, a URL and a padded URL has been read
C5_Witness ==
    /\ callOut = << <<UrlA, UrlB>> >>
    /\ callIn.file.kind = "text"
    /\ callIn.lines = <<Line(<<>>, <<>>, <<>>),
                        Line(<<>>, <<"#", " ", "p", "c", "s">>, <<>>),
                        Line(<<>>, UrlA, <<>>),
                        Line(<<" ", "\t">>, UrlB, <<"\r">>)>>

\* main is past "Determine which URLs to scrape"
Resolved == outputDir /\ pc \notin {"ensureDir", "resolve"}

\* C6: resolving the input never ends the run; a file that is missing, is
\* JSON of an unsupported shape or yields no URL gives the empty list, and
\* main then scrapes the default list; the file's list is scraped exactly
\* when it holds at least one URL.
C6_InputFallback ==
    Resolved =>
        /\ Len(urlsToScrape) > 0
        /\ fileContent = <<>> => (urls = <<>> /\ urlsToScrape = exampleUrls)
        /\ fileContent # <<>> =>
              LET f == fileContent[1]
              IN  /\ (f.kind = "missing" \/ f.t \in {"object", "scalar", "null"})
                        => urls = <<>>
                  /\ Len(urls) > 0 => urlsToScrape = urls
                  /\ Len(urls) = 0 => urlsToScrape = exampleUrls

\* a JSON object without a urls array was read, and the default list is used
C6_Witness ==
    /\ pc = "scrape"
    /\ fileContent = <<JsonObjectFile>>
    /\ urls = <<>>
    /\ urlsToScrape = exampleUrls

HelpFlags == {"--help", "-h"}

ValueOptions == {"--input", "-i", "--output", "-o"}

\* main has printed the usage and returned, and nothing else has happened
OnlyUsagePrinted ==
    /\ pc = "done"
    /\ usagePrinted
    /\ ~outputDir
    /\ fileContent = <<>>
    /\ browser = "none"
    /\ events = <<>>
    /\ printed = <<>>
    /\ jsonFile = <<>>
    /\ csvFile = <<>>

\* C7, as claimed: with --help or -h anywhere among the arguments, main
\* prints the usage and returns without running the pipeline.
C7_HelpAnywhere ==
    (pc # "main" /\ \E k \in 1..Len(argv) : argv[k] \in HelpFlags)
        => OnlyUsagePrinted

\* C7, amended: with --help or -h as the first argument, or right after an
\* argument that is not --input, -i, --output or -o, main prints the usage
\* and returns without running the pipeline.
C7_HelpNotAnOptionValue ==
    (pc # "main" /\ \E k \in 1..Len(argv) :
                        /\ argv[k] \in HelpFlags
                        /\ k > 1 => argv[k - 1] \notin ValueOptions)
        => OnlyUsagePrinted

\* the usage was printed for a help flag that follows another argument
C7_Witness ==
    /\ OnlyUsagePrinted
    /\ argv = <<"urls.txt", "-h">>

\* C8: a delay being waited for is a whole number of milliseconds between
\* 1000 and 3000, and no delay is started in the iteration of the last URL.
C8_DelayRange ==
    /\ pc = "delay" => (delay \in 1000..3000 /\ i < Len(urlsToScrape))
    /\ \A k \in 1..Len(events) :
          events[k].op = "delay" => events[k].at < Len(urlsToScrape)
    /\ Len(urlsToScrape) = 1 => AtOf("delay") = <<>>

\* the longest delay is being waited for
C8_Witness ==
    /\ pc = "delay"
    /\ delay = 2999
    /\ i = 2

\* the price of a record as the claim reads it: what is left of the price
\* after removing all but digits and points, parsed as a number
ParsedPrice(p) == parseFloat(StripNonNumeric(p.price))

\* the prices of the successful records that parse as a number
SuccessfulPrices(ps) ==
    LET successful == SelectSeq(ps, IsSuccessful)
    IN  SelectSeq([k \in 1..Len(successful) |-> ParsedPrice(successful[k])], IsNumber)

QuoteCount(s, k) == Cardinality({j \in 1..k : s[j] = "\""})

\* the positions of the character c outside double quotes
Breaks(s, c) == {k \in 1..Len(s) : s[k] = c /\ QuoteCount(s, k) % 2 = 0}

\* the m-th smallest element of the set P of numbers
Nth(P, m) == CHOOSE p \in P : Cardinality({q \in P : q < p}) = m - 1

\* the elements of s at the positions P, in order
Pick(s, P) == [m \in 1..Cardinality(P) |-> s[Nth(P, m)]]

\* the pieces of s between the positions P
Pieces(s, P) ==
    [m \in 1..(Cardinality(P) + 1) |->
        SubSeq(s, IF m = 1 THEN 1 ELSE Nth(P, m - 1) + 1,
                  IF m = Cardinality(P) + 1 THEN Len(s) ELSE Nth(P, m) - 1)]

Inner(cell) == SubSeq(cell, 2, Len(cell) - 1)

\* cell is a quoted, non-empty text whose quotes are all doubled
WellQuoted(cell) ==
    /\ Len(cell) > 2
    /\ cell[1] = "\"" /\ cell[Len(cell)] = "\""
    /\ QuoteCount(Inner(cell), Len(cell) - 2) % 2 = 0
    /\ \A j \in 1..(Len(cell) - 2) :
          (Inner(cell)[j] = "\"" /\ QuoteCount(Inner(cell), j) % 2 = 1)
              => (j < Len(cell) - 2 /\ Inner(cell)[j + 1] = "\"")

\* the text of a well quoted cell: the second quote of each pair dropped
Unquoted(cell) ==
    Pick(Inner(cell),
         {j \in 1..(Len(cell) - 2) :
             ~(Inner(cell)[j] = "\"" /\ QuoteCount(Inner(cell), j) % 2 = 0)})

CsvLines(s) == Pieces(s, Breaks(s, "\n"))

CsvCells(line) == Pieces(line, Breaks(line, ","))

\* the rows read from s, or <<>> when s is not of the format
ReadCsv(s) ==
    LET lines == CsvLines(s)
        wellFormed ==
            /\ \A c \in 1..Len(CsvCells(lines[1])) :
                  QuoteCount(CsvCells(lines[1])[c], Len(CsvCells(lines[1])[c])) = 0
            /\ \A r \in 2..Len(lines) : \A c \in 1..Len(CsvCells(lines[r])) :
                  CsvCells(lines[r])[c] = <<>> \/ WellQuoted(CsvCells(lines[r])[c])
    IN  IF wellFormed
        THEN [r \in 1..Len(lines) |->
                 IF r = 1 THEN CsvCells(lines[1])
                 ELSE [c \in 1..Len(CsvCells(lines[r])) |->
                          IF CsvCells(lines[r])[c] = <<>> THEN <<>>
                          ELSE Unquoted(CsvCells(lines[r])[c])]]
        ELSE <<>>

SaidHiCell == <<"\"", "H", "e", " ", "s", "a", "i", "d", " ", "\"", "\"", "h", "i", "\"", "\"", ",", " ", "o", "k", "\"">>

\* the thirteen column names
ColumnNames ==
    << <<"T", "i", "t", "l", "e">>, <<"P", "r", "i", "c", "e">>,
       <<"B", "r", "a", "n", "d">>, <<"M", "o", "d", "e", "l">>, <<"C", "P", "U">>,
       <<"R", "A", "M">>, <<"S", "t", "o", "r", "a", "g", "e">>,
       <<"A", "v", "a", "i", "l", "a", "b", "i", "l", "i", "t", "y">>,
       <<"Q", "u", "a", "n", "t", "i", "t", "y">>,
       <<"L", "o", "c", "a", "t", "i", "o", "n">>,
       <<"D", "e", "s", "c", "r", "i", "p", "t", "i", "o", "n">>,
       <<"I", "m", "a", "g", "e", " ", "U", "R", "L">>,
       <<"O", "r", "i", "g", "i", "n", "a", "l", " ", "U", "R", "L">> >>

\* the cells the claim gives the record p, in the order of the column names
CellsOf(p) ==
    <<p.title, p.price, p.brand, p.model, p.cpu, p.ram, p.storage,
      p.availability, p.quantity, p.location, p.description, p.imageUrl,
      p.originalUrl>>

\* C10: the CSV text is the header row of the thirteen column names and then
\* one row of thirteen cells per record, in list order and header order;
\* rows are joined by newlines and cells by commas; a non-empty field is
\* wrapped in double quotes with its quotes doubled, an empty one is an
\* empty cell; He said "hi", ok becomes "He said ""hi"", ok".
C10_CsvFormat ==
    callOut # <<>> =>
        LET rows == ReadCsv(callOut[1])
        IN  /\ Len(rows) = 1 + Len(callIn)
            /\ rows[1] = ColumnNames
            /\ \A k \in 1..Len(callIn) : rows[k + 1] = CellsOf(callIn[k])
            /\ \A k \in 1..Len(callIn) :
                  (\E f \in DOMAIN callIn[k] : callIn[k][f] = SaidHi)
                      => Contains(callOut[1], SaidHiCell)

\* two records were written, the first with the title He said "hi", ok
C10_Witness ==
    /\ callOut # <<>>
    /\ Len(callIn) = 2
    /\ callIn[1].title = SaidHi
    /\ callIn[2].description = <<"\"", ",", "\"">>
    /\ Contains(callOut[1], SaidHiCell)

\* C11: every context opened for a URL is closed before the next URL's
\* context is opened, on every path of the iteration: at most one context is
\* open at any time, and none is open when the browser is about to be closed.
C11_AtMostOneContextOpen ==
    /\ Cardinality(contexts) <= 1
    /\ pc = "finally" => contexts = {}

\* scrapeProducts has ended, by returning or by rejecting, after the launch
EndedAfterLaunch == browser # "none" /\ pc \in {"report", "done"}

\* C12: once the browser is launched, however scrapeProducts ends,
\* browser.close() has been called exactly once; the call comes only when
\* every URL has had its iteration, and nothing happens in the browser after
\* it (no context is opened once the browser is closed).
C12_BrowserClosedOnceAtTheEnd ==
    /\ Len(AtOf("closeBrowser")) <= 1
    /\ browserCloses <= 1
    /\ EndedAfterLaunch => Len(AtOf("closeBrowser")) = 1
    /\ (Returned \/ printed # <<>>) => (browser = "closed" /\ browserCloses = 1)
    /\ browser = "closed" => browserCloses = 1
    /\ \A k \in 1..Len(events) :
          events[k].op = "closeBrowser" =>
              /\ k = Len(events)
              /\ Len(AtOf("process")) = Len(urlsToScrape)
    /\ browser # "open" => pc \notin {"loop", "newContext", "newPage", "goto",
                                      "extract", "close", "delay", "finally"}

\* the browser was closed after a run in which the last URL failed to load
C12_Witness ==
    /\ Returned
    /\ browser = "closed"
    /\ Len(urlsToScrape) = 3
    /\ events[Len(events)] = Event("closeBrowser", 0)
    /\ events[Len(events) - 1] = Event("error", 3)

\* C13: for every URL but the last, failed or not, exactly one rate-limiting
\* delay lies between the end of its iteration and the start of the next: the
\* step just before the "Processing URL" line of URL i+1 is the delay of URL i,
\* and no URL has two delays.
C13_DelayBetweenConsecutiveUrls ==
    /\ \A k \in 1..Len(events) :
          (events[k].op = "process" /\ events[k].at > 1) =>
              /\ k > 1
              /\ events[k - 1] = Event("delay", events[k].at - 1)
    /\ Increasing(AtOf("delay"))

\* the k-th record belongs to the k-th iteration that reached the push, those
\* iterations are increasing, and the record carries that iteration's URL
StampedInOrder ==
    /\ Len(products) = Len(AtOf("extract"))
    /\ Increasing(AtOf("extract"))
    /\ \A k \in 1..Len(products) :
          /\ AtOf("extract")[k] \in 1..Len(urlsToScrape)
          /\ products[k].originalUrl = urlsToScrape[AtOf("extract")[k]]

\* records are only ever appended while scrapeProducts runs
AppendOnly ==
    [][pc \notin {"main", "ensureDir", "resolve", "scrape"} =>
          /\ Len(products') >= Len(products)
          /\ SubSeq(products', 1, Len(products)) = products]_vars

\* C14: every accumulated record carries the input URL of the iteration that
\* produced it, whatever originalUrl the extractor reported; records are only
\* ever appended, so the originalUrl values of the records always form an
\* order-preserving subsequence of the input URL list.
C14_OriginalUrlOfIteration == []StampedInOrder /\ AppendOnly

\* URL 2 of three failed; URLs 1 and 3 gave records, the extractor reporting
\* another address for both
C14_Witness ==
    /\ Returned
    /\ Len(urlsToScrape) = 3
    /\ AtOf("extract") = <<1, 3>>
    /\ Len(products) = 2
    /\ products[2].title # ExtractionFailed
    /\ GoodPc.originalUrl # urlsToScrape[3]
    /\ products[2].originalUrl = urlsToScrape[3]

====
